---- MODULE Spec2Model ----
(***************************************************************************)
(* A state-machine model of orca_orb.py: the analysis of the section       *)
(* 'LOEWDIN REDUCED ORBITAL POPULATIONS PER MO' of an ORCA output file.    *)
(* The script is a straight-line batch program; every section of it is one *)
(* action, and the line scan of the section is one action per input line.  *)
(*                                                                         *)
(* Representation.                                                         *)
(*  - An input line is a record [marks, toks]: marks is the set of marker  *)
(*    substrings the script tests for that occur in the line, toks is      *)
(*    line.strip().split().  A line is blank iff it has no token.          *)
(*  - Command line expressions (-o, -c, -a) are sequences of one-character *)
(*    strings, so that the regular expressions and str methods of the      *)
(*    script are computed character by character.                          *)
(*  - Numbers printed by ORCA are tokens (strings); the dtype conversions  *)
(*    turn them into integers.  All floats of the vocabulary are whole     *)
(*    numbers, so float sums are exact.                                    *)
(*  - The input family contains only blocks of regular shape (3 header     *)
(*    rows, data rows of 3+k tokens) that are followed by a blank line or  *)
(*    by the end of the file.                                              *)
(***************************************************************************)
EXTENDS Integers, Sequences, FiniteSets, TLC

VARIABLES
    orca_out,             \* the lines of the input file (readlines)
    args,                 \* the parsed command line
    csv,                  \* the cache file <filename>.csv
    pc,                   \* the section of the script that runs next
    outcome,              \* "running", "ok", an exit() or an uncaught exception
    msgs,                 \* messages and warnings printed so far
    loewdin_last,         \* index of the last header line, FALSE is NoLine
    pos,                  \* index of the next line of the scan loop
    emptyline_count,
    raworbitals,
    first_time,
    os_bound,             \* whether the name os is bound
    os,                   \* table of the last finalized block
    oall_bound,           \* whether the name oall is bound
    oall,                 \* the table
    spin,
    old_csv,
    csv_written,          \* the cache file was written by this run
    scanned,              \* indexes of the lines the scan loop has read
    tot_num_of_orb_a,
    tot_num_of_orb_b,
    homo_num,
    orb_start,
    orb_end,
    list_of_elements,
    list_of_atoms,
    appl_constr,
    list_of_atoms_ao,
    constr_for_atoms_set,
    report_open,          \* o-analysis.txt has been opened for writing
    report,               \* the tables written to o-analysis.txt
    plots                 \* the image files written by this run

vars == <<orca_out, args, csv, pc, outcome, msgs, loewdin_last, pos,
          emptyline_count, raworbitals, first_time, os_bound, os, oall_bound,
          oall, spin, old_csv, csv_written, scanned, tot_num_of_orb_a,
          tot_num_of_orb_b, homo_num, orb_start, orb_end, list_of_elements,
          list_of_atoms, appl_constr, list_of_atoms_ao, constr_for_atoms_set,
          report_open, report, plots>>

(***************************************************************************)
(* Bounds of the model.                                                    *)
(***************************************************************************)
\* Largest number of segments an input file is assembled from.
MaxSegs == 4
\* Largest length of a generated -o expression.
MaxOrbLen == 3
\* Largest length of a generated -c expression.
MaxConLen == 3
\* Largest length of a generated -a expression.
MaxAoLen == 3

(***************************************************************************)
(* Generic helpers.                                                        *)
(***************************************************************************)
RECURSIVE Flatten(_)
Flatten(ss) == IF ss = <<>> THEN <<>> ELSE Head(ss) \o Flatten(Tail(ss))

Range(s) == {s[i] : i \in DOMAIN s}

Strings(alphabet, n) == UNION {[1..k -> alphabet] : k \in 0..n}

SetMax(S) == CHOOSE m \in S : \A x \in S : x <= m

SetMin(S) == CHOOSE m \in S : \A x \in S : m <= x

\* The elements of a finite set of integers in ascending order.
RECURSIVE SortedSeq(_)
SortedSeq(S) == IF S = {} THEN <<>> ELSE <<SetMin(S)>> \o SortedSeq(S \ {SetMin(S)})

(***************************************************************************)
(* Input lines.                                                            *)
(***************************************************************************)
look_for_loewdin == "LOEWDIN REDUCED ORBITAL POPULATIONS PER MO"

\* 'marker in line'
Contains(line, marker) == marker \in line.marks

\* emptyline.match(line), emptyline = '^\s*$'
IsEmptyLine(line) == line.toks = <<>>

Row(toks) == [marks |-> {}, toks |-> toks]

LoewdinLine == [marks |-> {look_for_loewdin}, toks |-> <<look_for_loewdin>>]
DashLine == [marks |-> {"--"}, toks |-> <<"--------">>]
ThresholdLine == [marks |-> {"THRESHOLD"}, toks |-> <<"THRESHOLD FOR PRINTING">>]
SpinUpLine == [marks |-> {"SPIN"}, toks |-> <<"SPIN UP">>]
SpinDownLine == [marks |-> {"SPIN", "SPIN DOWN"}, toks |-> <<"SPIN DOWN">>]
BlankLine == Row(<<>>)

\* Orbitals 0 and 1: doubly and singly occupied.
BlockA ==
    << Row(<<"0", "1">>),
       Row(<<"-3.0", "-1.0">>),
       Row(<<"2.00000", "1.00000">>),
       DashLine,
       Row(<<"0", "C", "pz", "40.0", "10.0">>),
       Row(<<"0", "C", "px", "30.0", "10.0">>),
       Row(<<"1", "N", "s", "30.0", "50.0">>),
       Row(<<"2", "C", "s", "0.0", "30.0">>) >>

\* Orbitals 2 and 3: unoccupied.
BlockB ==
    << Row(<<"2", "3">>),
       Row(<<"1.0", "2.0">>),
       Row(<<"0.00000", "0.00000">>),
       DashLine,
       Row(<<"0", "C", "pz", "25.0", "0.0">>),
       Row(<<"0", "C", "px", "25.0", "0.0">>),
       Row(<<"1", "N", "s", "25.0", "0.0">>),
       Row(<<"2", "C", "s", "25.0", "100.0">>) >>

\* The pieces input files are assembled from.  A block is followed by the
\* blank line that closes it; BlockA also occurs without it.
SegHeader == <<LoewdinLine, DashLine, ThresholdLine>>
SegA == BlockA \o <<BlankLine>>
SegB == BlockB \o <<BlankLine>>
SegBlank == <<BlankLine>>
SegSpinUp == <<SpinUpLine>>
SegSpinDown == <<SpinDownLine>>
SegOpenA == BlockA

ClosedSegments == {SegHeader, SegA, SegB, SegBlank, SegSpinUp, SegSpinDown}

\* A block without its closing blank line only ends a file.
SegmentLists ==
    {ss \in Strings(ClosedSegments \cup {SegOpenA}, MaxSegs) :
        \A i \in DOMAIN ss : ss[i] = SegOpenA => i = Len(ss)}

Files == {Flatten(ss) : ss \in SegmentLists}

\* A complete closed shell-like output: header, two blocks.
FileAB == Flatten(<<SegHeader, SegA, SegB>>)

(***************************************************************************)
(* Strings of the command line: str methods and regular expressions.       *)
(***************************************************************************)
DigitCh == {"0", "1", "2", "3", "4", "5", "6", "7", "8", "9"}

UpperCh == {"A", "B", "C", "D", "E", "F", "G", "H", "I", "J", "K", "L", "M",
            "N", "O", "P", "Q", "R", "S", "T", "U", "V", "W", "X", "Y", "Z"}

LowerCh == {"a", "b", "c", "d", "e", "f", "g", "h", "i", "j", "k", "l", "m",
            "n", "o", "p", "q", "r", "s", "t", "u", "v", "w", "x", "y", "z"}

DigitVal == ("0" :> 0 @@ "1" :> 1 @@ "2" :> 2 @@ "3" :> 3 @@ "4" :> 4 @@
             "5" :> 5 @@ "6" :> 6 @@ "7" :> 7 @@ "8" :> 8 @@ "9" :> 9)

\* str.isdigit()
IsDigit(s) == s # <<>> /\ \A i \in DOMAIN s : s[i] \in DigitCh

\* int(s) of a string of digits
RECURSIVE IntOfStr(_)
IntOfStr(s) ==
    IF s = <<>> THEN 0
    ELSE 10 * IntOfStr(SubSeq(s, 1, Len(s) - 1)) + DigitVal[s[Len(s)]]

\* ''.join(chars): the token a string of characters spells
RECURSIVE Join(_)
Join(s) == IF s = <<>> THEN "" ELSE Head(s) \o Join(Tail(s))

\* The end of the longest run of digits of s that starts at i.
RECURSIVE DigitRunEnd(_, _)
DigitRunEnd(s, i) ==
    IF i + 1 <= Len(s) /\ s[i + 1] \in DigitCh THEN DigitRunEnd(s, i + 1) ELSE i

\* re.compile('\d+').findall(s), from position i on
RECURSIVE DigitRunsFrom(_, _)
DigitRunsFrom(s, i) ==
    IF i > Len(s) THEN <<>>
    ELSE IF s[i] \in DigitCh
         THEN <<SubSeq(s, i, DigitRunEnd(s, i))>> \o DigitRunsFrom(s, DigitRunEnd(s, i) + 1)
         ELSE DigitRunsFrom(s, i + 1)

\* orbrange = re.compile('\d+'), atm = re.compile('[\d]+')
orbrange_match(s) == s # <<>> /\ s[1] \in DigitCh
orbrange_findall(s) == DigitRunsFrom(s, 1)
atm_match(s) == s # <<>> /\ s[1] \in DigitCh
atm_findall(s) == DigitRunsFrom(s, 1)

\* orbrange_homo = re.compile('h(\d+)'): findall returns the groups
RECURSIVE HomoRunsFrom(_, _)
HomoRunsFrom(s, i) ==
    IF i > Len(s) THEN <<>>
    ELSE IF s[i] = "h" /\ i + 1 <= Len(s) /\ s[i + 1] \in DigitCh
         THEN <<SubSeq(s, i + 1, DigitRunEnd(s, i + 1))>>
              \o HomoRunsFrom(s, DigitRunEnd(s, i + 1) + 1)
         ELSE HomoRunsFrom(s, i + 1)

orbrange_homo_match(s) == Len(s) >= 2 /\ s[1] = "h" /\ s[2] \in DigitCh
orbrange_homo_findall(s) == HomoRunsFrom(s, 1)

\* elm = re.compile('[A-Z][a-z]{0,1}')
RECURSIVE ElmRunsFrom(_, _)
ElmRunsFrom(s, i) ==
    IF i > Len(s) THEN <<>>
    ELSE IF s[i] \in UpperCh
         THEN IF i + 1 <= Len(s) /\ s[i + 1] \in LowerCh
              THEN <<SubSeq(s, i, i + 1)>> \o ElmRunsFrom(s, i + 2)
              ELSE <<SubSeq(s, i, i)>> \o ElmRunsFrom(s, i + 1)
         ELSE ElmRunsFrom(s, i + 1)

elm_match(s) == s # <<>> /\ s[1] \in UpperCh
elm_findall(s) == ElmRunsFrom(s, 1)

\* The literals the script compares expressions with.
StrAll == <<"a", "l", "l">>
StrNone == <<"n", "o", "n", "e">>
StrHOMO == <<"H", "O", "M", "O">>
StrH == <<"h">>
StrHomo == <<"h", "o", "m", "o">>

(***************************************************************************)
(* Numbers as text.                                                        *)
(***************************************************************************)
DigitStr == <<"0", "1", "2", "3", "4", "5", "6", "7", "8", "9">>

\* str(n) of a natural number
RECURSIVE IntText(_)
IntText(n) ==
    IF n < 10 THEN DigitStr[n + 1] ELSE IntText(n \div 10) \o DigitStr[(n % 10) + 1]

\* repr of a float with a whole value, as to_csv writes it
FloatText(v) == IF v < 0 THEN "-" \o IntText(-v) \o ".0" ELSE IntText(v) \o ".0"

\* The numbers of the vocabulary.
NumRange == (0 - 9) .. 100

\* astype('int64') of a token, and the integer read_csv reads from a field
IntOf(tok) == CHOOSE n \in 0 .. 100 : IntText(n) = tok

\* astype('float64') of a token, and the float read_csv reads from a field
FloatOf(tok) == CHOOSE v \in NumRange : tok = FloatText(v)

\* Occupations are kept in units of 1e-8, so that the single precision value
\* of a decimal can be told from the decimal.
OccUnit == 10000 * 10000

\* The last 'width' decimal digits of n.
RECURSIVE Digits(_, _)
Digits(n, width) ==
    IF width = 0 THEN "" ELSE Digits(n \div 10, width - 1) \o DigitStr[(n % 10) + 1]

\* The digits after the point without trailing zeros, one digit at least.
RECURSIVE ShortFraction(_, _)
ShortFraction(n, width) ==
    IF width = 1 \/ n % 10 # 0 THEN Digits(n, width) ELSE ShortFraction(n \div 10, width - 1)

\* An occupation with the five decimals ORCA prints.
OccText5(v) == IntText(v \div OccUnit) \o "." \o Digits((v % OccUnit) \div 1000, 5)

\* repr of a float that has up to five decimals: '2.0', '1.99998'
OccRepr(v) == IntText(v \div OccUnit) \o "." \o ShortFraction((v % OccUnit) \div 1000, 5)

\* The occupations of the vocabulary, as decimals.
OccDecimals == {0, OccUnit, 2 * OccUnit, 2 * OccUnit - 2000}

\* float(tok), and the float64 read_csv reads from a field: the decimal
\* (the error of double precision is far below the unit).
Float64Occ(tok) == CHOOSE v \in OccDecimals : tok \in {OccText5(v), OccRepr(v)}

\* The single precision value next to a decimal.  0, 1 and 2 are exact;
\* 1.99998 becomes 16777048 * 2^-23 = 1.99997997283935546875.
Float32(v) == IF v = 2 * OccUnit - 2000 THEN 2 * OccUnit - 2003 ELSE v

\* astype('float32') of a token
Float32Occ(tok) == Float32(Float64Occ(tok))

\* str of a float32, as to_csv writes it: the shortest decimal that rounds
\* to the value.
Float32Repr(w) == OccRepr(CHOOSE v \in OccDecimals : Float32(v) = w)

\* row.orbital[0]: the first character of an AO label
RedOf(orbital) ==
    CHOOSE c \in {"s", "p", "d", "f"} :
        orbital \in {c, c \o "x", c \o "y", c \o "z", c \o "xy", c \o "xz", c \o "yz",
                     c \o "z2", c \o "x2y2"}

(***************************************************************************)
(* Record builder: lines 387-405.                                          *)
(***************************************************************************)
\* The record that takes the contribution of the first packed column.
BlockRecordFirstColumn(raw, sp, i, j) ==
    [orb_num |-> raw[1][i], orb_spin |-> sp, orb_en |-> raw[2][i],
     orb_occ |-> raw[3][i], atom_no |-> raw[j][1], element |-> raw[j][2],
     orbital |-> raw[j][3], orb_comp |-> raw[j][4]]

\* The record of packed column i and data row j of a raw block.
BlockRecord(raw, sp, i, j) ==
    [orb_num |-> raw[1][i], orb_spin |-> sp, orb_en |-> raw[2][i],
     orb_occ |-> raw[3][i], atom_no |-> raw[j][1], element |-> raw[j][2],
     orbital |-> raw[j][3], orb_comp |-> raw[j][3 + i]]

\* ob with the columns of packed column i inserted
BlockColumn(raw, sp, i) == [j \in 1 .. Len(raw) - 3 |-> BlockRecord(raw, sp, i, j + 3)]

RECURSIVE BlockColumnsUpTo(_, _, _)
BlockColumnsUpTo(raw, sp, i) ==
    IF i = 0 THEN <<>> ELSE BlockColumnsUpTo(raw, sp, i - 1) \o BlockColumn(raw, sp, i)

\* os: the table of one block, for i in range(0, len(en.loc[0]))
BlockTable(raw, sp) == BlockColumnsUpTo(raw, sp, Len(raw[1]))

(***************************************************************************)
(* Table store: dtypes (lines 426-434), cache file (365, 439), derived     *)
(* scalars (444-452).                                                      *)
(***************************************************************************)
\* One record after the astype conversions and the insertion of orb_red.
TypedRecord(r) ==
    [orb_num |-> IntOf(r.orb_num), orb_spin |-> r.orb_spin,
     orb_en |-> FloatOf(r.orb_en), orb_occ |-> Float32Occ(r.orb_occ),
     atom_no |-> IntOf(r.atom_no), element |-> r.element, orbital |-> r.orbital,
     orb_red |-> RedOf(r.orbital), orb_comp |-> FloatOf(r.orb_comp)]

AssignDtypes(table) == [i \in DOMAIN table |-> TypedRecord(table[i])]

\* One line of the cache file: the index and the nine columns as text.
CsvRow(i, r) ==
    [unnamed_0 |-> IntText(i), orb_num |-> IntText(r.orb_num),
     orb_spin |-> IntText(r.orb_spin), orb_en |-> FloatText(r.orb_en),
     orb_occ |-> Float32Repr(r.orb_occ), atom_no |-> IntText(r.atom_no),
     element |-> r.element, orbital |-> r.orbital, orb_red |-> r.orb_red,
     orb_comp |-> FloatText(r.orb_comp)]

\* oall.to_csv(filename + '.csv')
ToCsv(table) == [exists |-> TRUE, rows |-> [i \in DOMAIN table |-> CsvRow(i - 1, table[i])]]

NoCsv == [exists |-> FALSE, rows |-> <<>>]

\* One record of pd.read_csv: the index column comes back as a column.
ReadCsvRow(t) ==
    [unnamed_0 |-> IntOf(t.unnamed_0), orb_num |-> IntOf(t.orb_num),
     orb_spin |-> IntOf(t.orb_spin), orb_en |-> FloatOf(t.orb_en),
     orb_occ |-> Float64Occ(t.orb_occ), atom_no |-> IntOf(t.atom_no),
     element |-> t.element, orbital |-> t.orbital, orb_red |-> t.orb_red,
     orb_comp |-> FloatOf(t.orb_comp)]

\* pd.read_csv(filename + '.csv')
ReadCsv(file) == [i \in DOMAIN file.rows |-> ReadCsvRow(file.rows[i])]

\* len(oall[(oall.orb_spin > 0)]) != 0
HasBetaRecords(table) == \E i \in DOMAIN table : table[i].orb_spin > 0

\* The distinct values of a column in ascending order: the rows of a groupby.
GroupKeys(table, col) == SortedSeq({table[i][col] : i \in DOMAIN table})

\* table.groupby([col], as_index=False)['orb_num'].max().loc[row, 'orb_num'];
\* the row must exist.
GroupMaxOrbNum(table, col, row) ==
    SetMax({table[i].orb_num : i \in {j \in DOMAIN table :
                                        table[j][col] = GroupKeys(table, col)[row + 1]}})

\* Whether .loc[row, ...] of that groupby finds its row.
HasGroupRow(table, col, row) == row + 1 <= Len(GroupKeys(table, col))

\* oall['element'].unique(), oall['atom_no'].unique()
Unique(table, col) == {table[i][col] : i \in DOMAIN table}

(***************************************************************************)
(* Aggregator: lines 639-758.                                              *)
(***************************************************************************)
\* oall.rename(...), line 639
Renamed(r) ==
    [OrbNo |-> r.orb_num, Spin |-> r.orb_spin, OrbitalEnergy |-> r.orb_en,
     Occupation |-> r.orb_occ, AtomNo |-> r.atom_no, Element |-> r.element,
     Orb |-> r.orb_red, OrbOr |-> r.orbital, Cntrb |-> r.orb_comp]

RenamedTable(table) == [i \in DOMAIN table |-> Renamed(table[i])]

\* The aggregation that keeps one contribution of a group instead of the sum.
OneCntrb(rows, idx) ==
    IF idx = {} THEN 0 ELSE rows[CHOOSE j \in idx : TRUE].Cntrb

RECURSIVE SumCntrb(_, _)
SumCntrb(rows, idx) ==
    IF idx = {} THEN 0
    ELSE LET i == CHOOSE j \in idx : TRUE
         IN  rows[i].Cntrb + SumCntrb(rows, idx \ {i})

\* rows[idx].groupby(cols).agg({'Cntrb': 'sum'}): one row per distinct key
GroupBySum(rows, idx, cols) ==
    { [c \in cols \cup {"Cntrb"} |->
          IF c = "Cntrb"
          THEN SumCntrb(rows, {i \in idx : \A d \in cols : rows[i][d] = rows[k][d]})
          ELSE rows[k][c]] : k \in idx }

ByElementCols == {"OrbNo", "OrbitalEnergy", "Occupation", "Element"}
ByAtomCols == ByElementCols \cup {"AtomNo"}
ByOrbCols == ByAtomCols \cup {"Orb"}
ByOrbOrCols == ByOrbCols \cup {"OrbOr"}

\* The row filter without the upper end of the range.
FromStart(rows, sp, start, end) ==
    {i \in DOMAIN rows : rows[i].Spin = sp /\ rows[i].OrbNo >= start}

\* (oall.Spin == sp) & (oall.OrbNo >= orb_start) & (oall.OrbNo <= orb_end)
InRange(rows, sp, start, end) ==
    {i \in DOMAIN rows : rows[i].Spin = sp /\ rows[i].OrbNo >= start /\ rows[i].OrbNo <= end}

\* ... & oall.Element.isin(list_of_elements) & oall.AtomNo.isin(list_of_atoms)
InRangeConstrained(rows, sp, start, end, elements, atoms) ==
    {i \in InRange(rows, sp, start, end) :
        rows[i].Element \in elements /\ rows[i].AtomNo \in atoms}

\* The filter that drops a sum equal to the threshold.
Above(view, threshold) == {row \in view : row.Cntrb > threshold}

\* view[(view.Cntrb >= threshold)]
AtLeast(view, threshold) == {row \in view : row.Cntrb >= threshold}

\* ao_in_orb_a, ao_in_orb_b: lines 740-742, 752-754
ao_in_orb(view) ==
    { [AtomNo |-> row.AtomNo, Element |-> row.Element, Orb |-> row.Orb,
       OrbOr |-> row.OrbOr, OrbNo |-> row.OrbNo, Occ |-> row.Occupation,
       Cntrb |-> row.Cntrb] : row \in view }

(***************************************************************************)
(* Selection resolver: lines 458-600.                                      *)
(***************************************************************************)
\* The test without the spelling 'HOMO'.
IsHomoTokenLower(o) == o = StrH \/ o = StrHomo

\* args.orbitals == 'HOMO' or args.orbitals == 'h' or args.orbitals == 'homo'
IsHomoToken(o) == o = StrHOMO \/ o = StrH \/ o = StrHomo

\* The window without its upper half.
HomoWindowLower(homo, k) == [start |-> homo - k, end |-> homo]

\* lines 489-490
HomoWindow(homo, k) == [start |-> homo - k, end |-> homo + k]

\* The if / elif chain of lines 463-495: the range, or how the run ends.
OrbitalRange(o, homo, tot_a) ==
    IF o = StrAll
    THEN [status |-> "ok", start |-> 0, end |-> tot_a]
    ELSE IF IsHomoToken(o)
    THEN [status |-> "ok", start |-> homo, end |-> homo]
    ELSE IF IsDigit(o)
    THEN [status |-> "ok", start |-> IntOfStr(o), end |-> IntOfStr(o)]
    ELSE IF orbrange_match(o)
    THEN IF Len(orbrange_findall(o)) < 2
         THEN [status |-> "IndexError", start |-> IntOfStr(orbrange_findall(o)[1]), end |-> 0]
         ELSE IF IntOfStr(orbrange_findall(o)[1]) > IntOfStr(orbrange_findall(o)[2])
              THEN [status |-> "exit_start_gt_last",
                    start |-> IntOfStr(orbrange_findall(o)[1]),
                    end |-> IntOfStr(orbrange_findall(o)[2])]
              ELSE [status |-> "ok",
                    start |-> IntOfStr(orbrange_findall(o)[1]),
                    end |-> IntOfStr(orbrange_findall(o)[2])]
    ELSE IF orbrange_homo_match(o)
    THEN [status |-> "ok",
          start |-> HomoWindow(homo, IntOfStr(orbrange_homo_findall(o)[1])).start,
          end |-> HomoWindow(homo, IntOfStr(orbrange_homo_findall(o)[1])).end]
    ELSE [status |-> "exit_malformed", start |-> 0, end |-> 0]

\* The range test without the upper bound.
RangeExceededNoUpper(start, end, tot_a) == start < 0 \/ end < 0

\* line 598
RangeExceeded(start, end, tot_a) == start < 0 \/ end < 0 \/ end > tot_a

\* set(elm.findall(c)).intersection(oall['element'].unique())
ElementsNamed(c, table) ==
    {Join(t) : t \in Range(elm_findall(c))} \cap Unique(table, "element")

\* set(map(int, atm.findall(c))).intersection(oall['atom_no'].unique())
AtomsNamed(c, table) ==
    {IntOfStr(t) : t \in Range(atm_findall(c))} \cap Unique(table, "atom_no")

\* The fallback that keeps the empty selection.
NoneSelected(table, warning) ==
    [elements |-> {}, atoms |-> {}, appl |-> "none", warn |-> warning]

AllSelected(table, warning) ==
    [elements |-> Unique(table, "element"), atoms |-> Unique(table, "atom_no"),
     appl |-> "none", warn |-> warning]

\* The chain with both kinds of token applied at once.
ConstraintSelectionMixed(c, table) ==
    IF c = StrNone \/ (ElementsNamed(c, table) = {} /\ AtomsNamed(c, table) = {})
    THEN [elements |-> Unique(table, "element"), atoms |-> Unique(table, "atom_no"),
          appl |-> "none", warn |-> {}]
    ELSE [elements |-> IF ElementsNamed(c, table) # {} THEN ElementsNamed(c, table)
                       ELSE Unique(table, "element"),
          atoms |-> IF AtomsNamed(c, table) # {} THEN AtomsNamed(c, table)
                    ELSE Unique(table, "atom_no"),
          appl |-> "Mixed", warn |-> {}]

\* The if / elif chain of lines 502-542.
ConstraintSelection(c, table) ==
    IF c = StrNone
    THEN AllSelected(table, {})
    ELSE IF elm_match(c)
    THEN IF ElementsNamed(c, table) # {}
         THEN [elements |-> ElementsNamed(c, table), atoms |-> Unique(table, "atom_no"),
               appl |-> "Elements", warn |-> {}]
         ELSE AllSelected(table, {"None of the specified elements have been found."})
    ELSE IF atm_match(c)
    THEN IF AtomsNamed(c, table) # {}
         THEN [elements |-> Unique(table, "element"), atoms |-> AtomsNamed(c, table),
               appl |-> "Atoms", warn |-> {}]
         ELSE AllSelected(table, {"None of the specified atoms have been found."})
    ELSE AllSelected(table, {"None of the specified elements or atoms have been found."})

\* oall.loc[oall['element'].isin(elements), ['atom_no']]['atom_no']
AtomsOfElements(table, elements) ==
    {table[i].atom_no : i \in {j \in DOMAIN table : table[j].element \in elements}}

NoHeatMapWarning == "No heat map plots of AO contributions of atoms to orbital will be created."

\* The focus atoms as the union of the requested atoms inside the atom
\* constraint and the requested atoms inside the element constraint.
FocusAtomsUnion(a, table, elements, atoms) ==
    IF ~atm_match(a)
    THEN [bound |-> FALSE, atoms_ao |-> {}, set |-> FALSE, warn |-> {}]
    ELSE LET union == (AtomsNamed(a, table) \cap atoms)
                        \cup (AtomsNamed(a, table) \cap AtomsOfElements(table, elements))
         IN  [bound |-> TRUE, atoms_ao |-> union, set |-> union # {},
              warn |-> IF union = {} THEN {NoHeatMapWarning} ELSE {}]

\* The focus atoms taken as requested, whatever the constraints.
FocusAtomsRequested(a, table, elements, atoms) ==
    IF ~atm_match(a)
    THEN [bound |-> FALSE, atoms_ao |-> {}, set |-> FALSE, warn |-> {}]
    ELSE [bound |-> TRUE, atoms_ao |-> AtomsNamed(a, table),
          set |-> AtomsNamed(a, table) # {},
          warn |-> IF AtomsNamed(a, table) = {} THEN {NoHeatMapWarning} ELSE {}]

\* Lines 548-595: the focus atoms, and whether AO heat maps are drawn.
\* 'bound' tells whether the name list_of_atoms_ao is bound afterwards.
FocusAtoms(a, table, elements, atoms) ==
    IF ~atm_match(a)
    THEN [bound |-> FALSE, atoms_ao |-> {}, set |-> FALSE, warn |-> {}]
    ELSE IF AtomsNamed(a, table) = {}
    THEN [bound |-> FALSE, atoms_ao |-> {}, set |-> FALSE, warn |-> {NoHeatMapWarning}]
    ELSE LET requested == AtomsNamed(a, table)
             first == IF requested \cap atoms # {} THEN requested \cap atoms ELSE requested
             second == IF first \cap AtomsOfElements(table, elements) # {}
                       THEN first \cap AtomsOfElements(table, elements)
                       ELSE first
         IN  IF first \cap AtomsOfElements(table, elements) # {} /\ second \cap atoms # {}
             THEN [bound |-> TRUE, atoms_ao |-> second, set |-> TRUE, warn |-> {}]
             ELSE [bound |-> TRUE, atoms_ao |-> second, set |-> FALSE,
                   warn |-> {NoHeatMapWarning}]

(***************************************************************************)
(* Inputs: the file, the command line and the cache file found on disk.    *)
(***************************************************************************)
\* A spin-down block of orbitals 0 and 1: singly occupied and unoccupied.
BlockBeta ==
    << Row(<<"0", "1">>),
       Row(<<"-2.0", "1.0">>),
       Row(<<"1.00000", "0.00000">>),
       DashLine,
       Row(<<"0", "C", "pz", "50.0", "0.0">>),
       Row(<<"0", "C", "px", "0.0", "25.0">>),
       Row(<<"1", "N", "s", "25.0", "25.0">>),
       Row(<<"2", "C", "s", "25.0", "50.0">>) >>

\* A spin unrestricted output: the same orbital numbers in both channels.
FileUHF2 ==
    Flatten(<<SegHeader, SegSpinUp, SegA, SegSpinDown, BlockBeta, SegBlank, SegBlank>>)

\* Orbitals 0 and 1 with a fractional occupation, as natural orbitals have.
BlockF ==
    << Row(<<"0", "1">>),
       Row(<<"-3.0", "1.0">>),
       Row(<<"1.99998", "0.00000">>),
       DashLine,
       Row(<<"0", "C", "s", "100.0", "50.0">>),
       Row(<<"1", "N", "s", "0.0", "50.0">>) >>

FileF == Flatten(<<SegHeader, BlockF, SegBlank, SegBlank>>)

\* raworbitals of the lines of a block
RECURSIVE RawRows(_)
RawRows(lines) ==
    IF lines = <<>> THEN <<>>
    ELSE IF Head(lines).marks = {} /\ ~IsEmptyLine(Head(lines))
         THEN <<Head(lines).toks>> \o RawRows(Tail(lines))
         ELSE RawRows(Tail(lines))

\* Tables an earlier run has parsed and cached.
TableAB == AssignDtypes(BlockTable(RawRows(BlockA), 0) \o BlockTable(RawRows(BlockB), 0))
TableUHF2 == AssignDtypes(BlockTable(RawRows(BlockA), 0) \o BlockTable(RawRows(BlockBeta), 1))

DefaultArgs ==
    [orbitals |-> StrAll, threshold |-> 0, constraints |-> StrNone,
     aorbitals |-> StrNone, newcsv |-> FALSE]

OrbAlphabet == {"h", "0", "1", "2", "-", ":", "x"}
OrbExprs == (Strings(OrbAlphabet, MaxOrbLen) \ {<<>>}) \cup {StrAll}

\* Every way of writing 'h' and 'homo' in upper and lower case.
HomoSpellings ==
    {<<"h">>, <<"H">>} \cup
    {<<a, b, c, d>> : a \in {"h", "H"}, b \in {"o", "O"}, c \in {"m", "M"}, d \in {"o", "O"}}

ConAlphabet == {"C", "N", "e", "0", "1", ","}
ConExprs == (Strings(ConAlphabet, MaxConLen) \ {<<>>}) \cup {StrNone}

SmallOrbExprs == {StrAll, StrH, <<"h", "1">>, <<"2", "-", "1">>, <<"1", "x">>, <<"x">>, <<"9">>}
SmallConExprs == {StrNone, <<"C">>, <<"1">>}
SmallAoExprs == {StrNone, <<"1">>}

\* The scan of files of every shape, default options, no cache file.
ParserInputs ==
    {[file |-> f, args |-> DefaultArgs, csv |-> NoCsv] : f \in Files}

\* Complete files with and without a cache file, a few options of each kind.
PipelineInputs ==
    {[file |-> f,
      args |-> [orbitals |-> o, threshold |-> t, constraints |-> c, aorbitals |-> a,
                newcsv |-> n],
      csv |-> k] :
        f \in {FileAB, FileUHF2, <<BlankLine>>},
        o \in SmallOrbExprs, t \in {0, 50}, c \in SmallConExprs, a \in SmallAoExprs,
        n \in BOOLEAN, k \in {NoCsv, ToCsv(TableUHF2)}}

\* Every -o expression up to the bound, on cached tables.
OrbitalInputs ==
    {[file |-> FileAB, args |-> [DefaultArgs EXCEPT !.orbitals = o], csv |-> ToCsv(t)] :
        o \in OrbExprs \cup HomoSpellings, t \in {TableAB, TableUHF2}}

\* Every -c expression up to the bound, on cached tables.
ConstraintInputs ==
    {[file |-> FileAB,
      args |-> [DefaultArgs EXCEPT !.constraints = c, !.threshold = t, !.orbitals = o],
      csv |-> ToCsv(tab)] :
        c \in ConExprs, t \in {0, 50}, o \in {StrAll, StrH}, tab \in {TableUHF2}}

\* A file, and the cache file an earlier run on the same file has written.
CachedFiles ==
    {[file |-> FileAB, table |-> TableAB],
     [file |-> FileUHF2, table |-> TableUHF2],
     [file |-> FileF, table |-> AssignDtypes(BlockTable(RawRows(BlockF), 0))]}

\* First and later runs on the same file.
RoundTripInputs ==
    {[file |-> f.file,
      args |-> [DefaultArgs EXCEPT !.orbitals = o, !.threshold = t, !.newcsv = n],
      csv |-> IF cached THEN ToCsv(f.table) ELSE NoCsv] :
        f \in CachedFiles, o \in {StrAll, StrH}, t \in {0, 50}, n \in BOOLEAN,
        cached \in BOOLEAN}

AoAlphabet == {"0", "1", "9", ","}
AoExprs == (Strings(AoAlphabet, MaxAoLen) \ {<<>>}) \cup {StrNone, <<"C">>}

FocusConExprs == {StrNone, <<"C">>, <<"N">>, <<"1">>, <<"0", ",", "2">>}

\* Every -a expression up to the bound with constraints of each kind, on a
\* cached table, and some on a file that is parsed.
FocusInputs ==
    {[file |-> FileAB,
      args |-> [DefaultArgs EXCEPT !.aorbitals = a, !.constraints = c, !.threshold = t],
      csv |-> ToCsv(TableUHF2)] :
        a \in AoExprs, c \in FocusConExprs, t \in {0, 50}}
    \cup
    {[file |-> FileAB,
      args |-> [DefaultArgs EXCEPT !.aorbitals = a, !.constraints = c],
      csv |-> NoCsv] :
        a \in {<<"1">>, <<"0", ",", "1">>}, c \in FocusConExprs}

\* The inputs of the runs that resolve selections, and of the runs that scan.
Inputs == PipelineInputs \cup OrbitalInputs \cup ConstraintInputs

\* loewdin_last = False
NoLine == -1

EmptyReport ==
    [el_a |-> {}, el_b |-> {}, at_a |-> {}, at_b |-> {}, orb_a |-> {}, orb_b |-> {},
     orbor_a |-> {}, orbor_b |-> {}, ao_a |-> {}, ao_b |-> {}]

Start(inputs) ==
    /\ \E in \in inputs :
          /\ orca_out = in.file
          /\ args = in.args
          /\ csv = in.csv
    /\ pc = "search"
    /\ outcome = "running"
    /\ msgs = {}
    /\ loewdin_last = NoLine
    /\ pos = 0
    /\ emptyline_count = 0
    /\ raworbitals = <<>>
    /\ first_time = FALSE
    /\ os_bound = FALSE
    /\ os = <<>>
    /\ oall_bound = FALSE
    /\ oall = <<>>
    /\ spin = 0
    /\ old_csv = 0
    /\ csv_written = FALSE
    /\ scanned = {}
    /\ tot_num_of_orb_a = 0
    /\ tot_num_of_orb_b = 0
    /\ homo_num = 0
    /\ orb_start = 0
    /\ orb_end = 0
    /\ list_of_elements = {}
    /\ list_of_atoms = {}
    /\ appl_constr = "none"
    /\ list_of_atoms_ao = {}
    /\ constr_for_atoms_set = FALSE
    /\ report_open = FALSE
    /\ report = EmptyReport
    /\ plots = {}

Init == Start(Inputs)

InitScan == Start(ParserInputs)

InitRoundTrip == Start(RoundTripInputs)

InitFocus == Start(FocusInputs)

(***************************************************************************)
(* The run.                                                                *)
(***************************************************************************)
ParserVars == <<pos, emptyline_count, raworbitals, first_time, os_bound, os, scanned>>
TableVars == <<oall_bound, oall, spin, old_csv>>
ScalarVars == <<tot_num_of_orb_a, tot_num_of_orb_b, homo_num>>
RangeVars == <<orb_start, orb_end>>
ConstraintVars == <<list_of_elements, list_of_atoms, appl_constr>>
FocusVars == <<list_of_atoms_ao, constr_for_atoms_set>>
OutputVars == <<report_open, report, plots>>
InputVars == <<orca_out, args>>

\* exit(), or an exception nobody catches: the process ends here.
Stop(how) ==
    /\ outcome' = how
    /\ pc' = "done"

\* for i, line in enumerate(orca_out): if look_for_loewdin in line: loewdin_last = i
RECURSIVE LastHeaderFrom(_, _, _)
LastHeaderFrom(lines, i, last) ==
    IF i >= Len(lines) THEN last
    ELSE LastHeaderFrom(lines, i + 1,
                        IF Contains(lines[i + 1], look_for_loewdin) THEN i ELSE last)

\* The search with loewdin_last initialised to 0 instead of False.
LastHeaderInitZero(lines) == LastHeaderFrom(lines, 0, 0)

\* The search that keeps the first occurrence instead of the last.
FirstHeader(lines) ==
    IF \E i \in DOMAIN lines : Contains(lines[i], look_for_loewdin)
    THEN SetMin({i \in DOMAIN lines : Contains(lines[i], look_for_loewdin)}) - 1
    ELSE NoLine

LastHeader(lines) == LastHeaderFrom(lines, 0, NoLine)

\* Lines 339-348.
SearchLoewdin ==
    /\ pc = "search"
    /\ loewdin_last' = LastHeader(orca_out)
    /\ IF loewdin_last' = NoLine
       THEN /\ msgs' = msgs \cup {"not found"}
            /\ Stop("exit_not_found")
       ELSE /\ msgs' = msgs
            /\ outcome' = outcome
            /\ pc' = "csv_check"
    /\ UNCHANGED <<InputVars, csv, csv_written, ParserVars, TableVars, ScalarVars,
                   RangeVars, ConstraintVars, FocusVars, OutputVars>>

\* Lines 357 and 363: the cache file is there and -ncsv is not given.
UseCache(file, newcsv) == file.exists /\ ~newcsv

\* The test that never replaces a cache file.
WriteIfMissing(file, newcsv) == ~file.exists

\* Line 437: there is no cache file, or -ncsv is given.
MustWrite(file, newcsv) == ~file.exists \/ newcsv

\* Lines 357-376: the cache file is used if it is there and -ncsv is not given.
CheckCsv ==
    /\ pc = "csv_check"
    /\ IF UseCache(csv, args.newcsv)
       THEN /\ oall' = ReadCsv(csv)
            /\ oall_bound' = TRUE
            /\ old_csv' = 1
            /\ spin' = IF HasBetaRecords(oall') THEN 1 ELSE spin
            /\ pc' = "csv_write"
       ELSE /\ old_csv' = 0
            /\ UNCHANGED <<oall, oall_bound, spin>>
            /\ pc' = "scan"
    /\ msgs' = msgs \cup (IF csv.exists THEN {"Found csv in folder."} ELSE {})
                    \cup (IF csv.exists /\ args.newcsv THEN {"Building new csv."} ELSE {})
    /\ pos' = loewdin_last + 1
    /\ UNCHANGED <<InputVars, csv, csv_written, outcome, loewdin_last, emptyline_count,
                   raworbitals, first_time, os_bound, os, scanned, ScalarVars, RangeVars,
                   ConstraintVars, FocusVars, OutputVars>>

\* not "--" in line and not "SPIN" in line and not "THRESHOLD" in line
IsContentLine(line) ==
    ~Contains(line, "--") /\ ~Contains(line, "SPIN") /\ ~Contains(line, "THRESHOLD")

\* A spin that follows the last divider line read.
SpinOfLastDivider(line, sp) == IF Contains(line, "SPIN DOWN") THEN 1 ELSE 0

\* spin after the test of line 380
SpinAfter(line, sp) == IF Contains(line, "SPIN DOWN") THEN 1 ELSE sp

\* Lines 378-424, one pass of the loop body: a line that is skipped.
ScanSkippedLine ==
    /\ pc = "scan"
    /\ pos < Len(orca_out)
    /\ ~IsContentLine(orca_out[pos + 1])
    /\ spin' = SpinAfter(orca_out[pos + 1], spin)
    /\ pos' = pos + 1
    /\ scanned' = scanned \cup {pos}
    /\ UNCHANGED <<InputVars, csv, csv_written, pc, outcome, msgs, loewdin_last,
                   emptyline_count, raworbitals, first_time, os_bound, os, oall_bound,
                   oall, old_csv, ScalarVars, RangeVars, ConstraintVars, FocusVars,
                   OutputVars>>

\* One pass of the loop body: a line of a block.
ScanContentLine ==
    /\ pc = "scan"
    /\ pos < Len(orca_out)
    /\ IsContentLine(orca_out[pos + 1])
    /\ ~IsEmptyLine(orca_out[pos + 1])
    /\ emptyline_count' = 0
    /\ raworbitals' = Append(raworbitals, orca_out[pos + 1].toks)
    /\ pos' = pos + 1
    /\ scanned' = scanned \cup {pos}
    /\ UNCHANGED <<InputVars, csv, csv_written, pc, outcome, msgs, loewdin_last,
                   first_time, os_bound, os, TableVars, ScalarVars, RangeVars,
                   ConstraintVars, FocusVars, OutputVars>>

\* A loop that no blank line ends.
SectionNeverEnds(count) == count < 0

\* The loop that goes on until a third blank line.
SectionEndsAtThree(count) == count = 3

\* 2 empty lines = end of the whole orbital block: exit the loop
SectionEnds(count) == count = 2

\* One pass of the loop body: a blank line.
ScanEmptyLine ==
    /\ pc = "scan"
    /\ pos < Len(orca_out)
    /\ IsContentLine(orca_out[pos + 1])
    /\ IsEmptyLine(orca_out[pos + 1])
    /\ scanned' = scanned \cup {pos}
    /\ pos' = pos + 1
    /\ emptyline_count' = emptyline_count + 1
    /\ os' = IF raworbitals # <<>> THEN BlockTable(raworbitals, spin) ELSE os
    /\ os_bound' = (os_bound \/ raworbitals # <<>>)
    /\ IF SectionEnds(emptyline_count')
       THEN \* break
            /\ pc' = "dtypes"
            /\ UNCHANGED <<outcome, raworbitals, first_time, oall, oall_bound>>
       ELSE IF ~first_time /\ ~os_bound'
       THEN \* oall=pd.DataFrame(os): name 'os' is not defined
            /\ Stop("NameError")
            /\ UNCHANGED <<raworbitals, first_time, oall, oall_bound>>
       ELSE /\ oall' = IF first_time THEN oall \o os' ELSE os'
            /\ oall_bound' = TRUE
            /\ first_time' = TRUE
            /\ raworbitals' = <<>>
            /\ UNCHANGED <<pc, outcome>>
    /\ UNCHANGED <<InputVars, csv, csv_written, msgs, loewdin_last, spin, old_csv,
                   ScalarVars, RangeVars, ConstraintVars, FocusVars, OutputVars>>

\* An end of the loop that adds the rows still accumulated to the table.
ScanEndFlushes ==
    /\ pc = "scan"
    /\ pos >= Len(orca_out)
    /\ pc' = "dtypes"
    /\ oall' = IF raworbitals # <<>> THEN oall \o BlockTable(raworbitals, spin) ELSE oall
    /\ oall_bound' = (oall_bound \/ raworbitals # <<>>)
    /\ UNCHANGED <<InputVars, csv, csv_written, outcome, msgs, loewdin_last, ParserVars,
                   spin, old_csv, ScalarVars, RangeVars, ConstraintVars, FocusVars,
                   OutputVars>>

\* The loop ends with the last line of the file.
ScanEnd ==
    /\ pc = "scan"
    /\ pos >= Len(orca_out)
    /\ pc' = "dtypes"
    /\ UNCHANGED <<InputVars, csv, csv_written, outcome, msgs, loewdin_last, ParserVars,
                   TableVars, ScalarVars, RangeVars, ConstraintVars, FocusVars, OutputVars>>

\* Lines 427-434.
AssignTypes ==
    /\ pc = "dtypes"
    /\ IF ~oall_bound
       THEN \* name 'oall' is not defined
            /\ Stop("NameError")
            /\ UNCHANGED oall
       ELSE /\ oall' = AssignDtypes(oall)
            /\ pc' = "csv_write"
            /\ UNCHANGED outcome
    /\ UNCHANGED <<InputVars, csv, csv_written, msgs, loewdin_last, ParserVars, oall_bound,
                   spin, old_csv, ScalarVars, RangeVars, ConstraintVars, FocusVars,
                   OutputVars>>

\* Lines 437-440.
WriteCsv ==
    /\ pc = "csv_write"
    /\ IF MustWrite(csv, args.newcsv)
       THEN /\ csv' = ToCsv(oall)
            /\ csv_written' = TRUE
            /\ msgs' = msgs \cup {"Data frame saved to disk."}
       ELSE UNCHANGED <<csv, csv_written, msgs>>
    /\ pc' = "totals"
    /\ UNCHANGED <<InputVars, outcome, loewdin_last, ParserVars, TableVars, ScalarVars,
                   RangeVars, ConstraintVars, FocusVars, OutputVars>>

\* Lines 444-452.
Totals ==
    /\ pc = "totals"
    /\ tot_num_of_orb_a' = GroupMaxOrbNum(oall, "orb_spin", 0)
    /\ IF spin = 1 /\ ~HasGroupRow(oall, "orb_spin", 1)
       THEN \* tot_num_of_orb.loc[1, 'orb_num']
            /\ Stop("KeyError")
            /\ UNCHANGED <<tot_num_of_orb_b, homo_num>>
       ELSE /\ tot_num_of_orb_b' = IF spin = 1 THEN GroupMaxOrbNum(oall, "orb_spin", 1)
                                   ELSE tot_num_of_orb_b
            /\ IF ~HasGroupRow(oall, "orb_occ", 1)
               THEN \* homo_num.loc[1, 'orb_num']
                    /\ Stop("KeyError")
                    /\ UNCHANGED homo_num
               ELSE /\ homo_num' = GroupMaxOrbNum(oall, "orb_occ", 1)
                    /\ pc' = "orbitals"
                    /\ UNCHANGED outcome
    /\ UNCHANGED <<InputVars, csv, csv_written, msgs, loewdin_last, ParserVars, TableVars,
                   RangeVars, ConstraintVars, FocusVars, OutputVars>>

\* Lines 463-495.
ResolveOrbitals ==
    /\ pc = "orbitals"
    /\ LET r == OrbitalRange(args.orbitals, homo_num, tot_num_of_orb_a)
       IN  /\ orb_start' = r.start
           /\ orb_end' = r.end
           /\ IF r.status = "ok"
              THEN /\ pc' = "constraints"
                   /\ UNCHANGED <<outcome, msgs>>
              ELSE /\ Stop(r.status)
                   /\ msgs' = msgs \cup
                         (IF r.status = "exit_start_gt_last"
                          THEN {"Start orbital > Last orbital."}
                          ELSE IF r.status = "exit_malformed"
                          THEN {"Malformed parameter."}
                          ELSE {})
    /\ UNCHANGED <<InputVars, csv, csv_written, loewdin_last, ParserVars, TableVars,
                   ScalarVars, ConstraintVars, FocusVars, OutputVars>>

\* Lines 502-542.
ResolveConstraints ==
    /\ pc = "constraints"
    /\ LET c == ConstraintSelection(args.constraints, oall)
       IN  /\ list_of_elements' = c.elements
           /\ list_of_atoms' = c.atoms
           /\ appl_constr' = c.appl
           /\ msgs' = msgs \cup c.warn
    /\ pc' = "aorbitals"
    /\ UNCHANGED <<InputVars, csv, csv_written, outcome, loewdin_last, ParserVars,
                   TableVars, ScalarVars, RangeVars, FocusVars, OutputVars>>

\* Lines 548-595.
ResolveFocusAtoms ==
    /\ pc = "aorbitals"
    /\ LET f == FocusAtoms(args.aorbitals, oall, list_of_elements, list_of_atoms)
       IN  /\ list_of_atoms_ao' = f.atoms_ao
           /\ constr_for_atoms_set' = f.set
           /\ msgs' = msgs \cup f.warn
    /\ pc' = "range"
    /\ UNCHANGED <<InputVars, csv, csv_written, outcome, loewdin_last, ParserVars,
                   TableVars, ScalarVars, RangeVars, ConstraintVars, OutputVars>>

\* Lines 597-600.
CheckRange ==
    /\ pc = "range"
    /\ IF RangeExceeded(orb_start, orb_end, tot_num_of_orb_a)
       THEN /\ Stop("exit_range")
            /\ msgs' = msgs \cup {"Value exceeds range of orbitals."}
       ELSE /\ pc' = "report"
            /\ UNCHANGED <<outcome, msgs>>
    /\ UNCHANGED <<InputVars, csv, csv_written, loewdin_last, ParserVars, TableVars,
                   ScalarVars, RangeVars, ConstraintVars, FocusVars, OutputVars>>

\* The grouped tables of lines 656-754, as functions of the state.
sum_by_el_b == GroupBySum(RenamedTable(oall), InRange(RenamedTable(oall), 1, orb_start, orb_end),
                          ByElementCols)

Constrained(sp) ==
    InRangeConstrained(RenamedTable(oall), sp, orb_start, orb_end, list_of_elements, list_of_atoms)

\* The element table with the constraints and the threshold applied.
sum_by_el_a_constrained ==
    AtLeast(GroupBySum(RenamedTable(oall), Constrained(0), ByElementCols), args.threshold)

sum_by_el_a == GroupBySum(RenamedTable(oall), InRange(RenamedTable(oall), 0, orb_start, orb_end),
                          ByElementCols)

sum_by_at_a == GroupBySum(RenamedTable(oall), Constrained(0), ByAtomCols)
sum_by_at_b == GroupBySum(RenamedTable(oall), Constrained(1), ByAtomCols)
sum_by_orb_a == GroupBySum(RenamedTable(oall), Constrained(0), ByOrbCols)
sum_by_orb_b == GroupBySum(RenamedTable(oall), Constrained(1), ByOrbCols)
sum_by_orb_or_a == GroupBySum(RenamedTable(oall), Constrained(0), ByOrbOrCols)
sum_by_orb_or_b == GroupBySum(RenamedTable(oall), Constrained(1), ByOrbOrCols)
ao_in_orb_a == ao_in_orb(sum_by_orb_or_a)
ao_in_orb_b == ao_in_orb(sum_by_orb_or_b)

\* A beta table is written only if spin == 1.
IfBeta(view) == IF spin = 1 THEN view ELSE {}

\* Lines 606-760: o-analysis.txt is opened, written and closed.
WriteReport ==
    /\ pc = "report"
    /\ report_open' = TRUE
    /\ report' = [el_a |-> sum_by_el_a,
                  el_b |-> IfBeta(sum_by_el_b),
                  at_a |-> AtLeast(sum_by_at_a, args.threshold),
                  at_b |-> IfBeta(AtLeast(sum_by_at_b, args.threshold)),
                  orb_a |-> AtLeast(sum_by_orb_a, args.threshold),
                  orb_b |-> IfBeta(AtLeast(sum_by_orb_b, args.threshold)),
                  orbor_a |-> AtLeast(sum_by_orb_or_a, args.threshold),
                  orbor_b |-> IfBeta(AtLeast(sum_by_orb_or_b, args.threshold)),
                  ao_a |-> AtLeast(ao_in_orb_a, args.threshold),
                  ao_b |-> IfBeta(AtLeast(ao_in_orb_b, args.threshold))]
    /\ pc' = "plots"
    /\ UNCHANGED <<InputVars, csv, csv_written, outcome, msgs, loewdin_last, ParserVars,
                   TableVars, ScalarVars, RangeVars, ConstraintVars, FocusVars, plots>>

\* The AO heat maps of one spin channel, lines 932-978 and 983-1028: one file
\* for every focus atom that has a row left.
AoHeatMaps(view, suffix) ==
    { "ao-cntrb-" \o row.Element \o IntText(row.AtomNo) \o suffix :
        row \in {r \in AtLeast(view, args.threshold) : r.AtomNo \in list_of_atoms_ao} }

\* The heat map drawn whether or not a row is left.
AtomHeatMapAlways(view, name) == {name}

\* Lines 854-895 and 900-923: the atom heat map of a channel is drawn only if
\* a row of the by-atom table is left at the threshold.
AtomHeatMap(view, name) == IF AtLeast(view, args.threshold) # {} THEN {name} ELSE {}

\* Lines 770-1028.  DataFrame.plot raises TypeError for an empty table
\* ("no numeric data to plot"); the beta bar plot is drawn first.
Plot ==
    /\ pc = "plots"
    /\ IF spin = 1 /\ sum_by_el_b = {}
       THEN /\ Stop("TypeError")
            /\ UNCHANGED plots
       ELSE IF sum_by_el_a = {}
       THEN /\ Stop("TypeError")
            /\ plots' = plots \cup IfBeta({"el-cntrb-b.png"})
       ELSE /\ Stop("ok")
            /\ plots' = plots
                 \cup {"el-cntrb-a.png"} \cup IfBeta({"el-cntrb-b.png"})
                 \cup AtomHeatMap(sum_by_at_a, "a-cntrb-a.png")
                 \cup IfBeta(AtomHeatMap(sum_by_at_b, "a-cntrb-b.png"))
                 \cup (IF constr_for_atoms_set
                       THEN AoHeatMaps(ao_in_orb_a, "-a.png")
                            \cup IfBeta(AoHeatMaps(ao_in_orb_b, "-b.png"))
                       ELSE {})
    /\ UNCHANGED <<InputVars, csv, csv_written, msgs, loewdin_last, ParserVars, TableVars,
                   ScalarVars, RangeVars, ConstraintVars, FocusVars, report_open, report>>

Next ==
    \/ SearchLoewdin
    \/ CheckCsv
    \/ ScanSkippedLine
    \/ ScanContentLine
    \/ ScanEmptyLine
    \/ ScanEnd
    \/ AssignTypes
    \/ WriteCsv
    \/ Totals
    \/ ResolveOrbitals
    \/ ResolveConstraints
    \/ ResolveFocusAtoms
    \/ CheckRange
    \/ WriteReport
    \/ Plot

\* Runs on complete files and cached tables with options of every kind.
Spec == Init /\ [][Next]_vars

\* Runs with default options on files of every shape.
SpecScan == InitScan /\ [][Next]_vars

\* First runs and runs on the cache file of a first run.
SpecRoundTrip == InitRoundTrip /\ [][Next]_vars

\* Runs with focus atoms and constraints of every kind.
SpecFocus == InitFocus /\ [][Next]_vars

(***************************************************************************)
(* Properties.                                                             *)
(***************************************************************************)
\* The sections of the script that have run, read off pc and outcome.
TotalsDone ==
    \/ pc \in {"orbitals", "constraints", "aorbitals", "range", "report", "plots"}
    \/ pc = "done" /\ outcome \in {"exit_start_gt_last", "exit_malformed", "IndexError",
                                   "exit_range", "TypeError", "ok"}

OrbitalsDone ==
    \/ pc \in {"constraints", "aorbitals", "range", "report", "plots"}
    \/ pc = "done" /\ outcome \in {"exit_start_gt_last", "exit_malformed", "IndexError",
                                   "exit_range", "TypeError", "ok"}

ConstraintsDone ==
    \/ pc \in {"aorbitals", "range", "report", "plots"}
    \/ pc = "done" /\ outcome \in {"exit_range", "TypeError", "ok"}

RangeDone ==
    \/ pc \in {"report", "plots"}
    \/ pc = "done" /\ outcome \in {"exit_range", "TypeError", "ok"}

ReportDone ==
    \/ pc = "plots"
    \/ pc = "done" /\ outcome \in {"TypeError", "ok"}

HasHeader == \E i \in DOMAIN orca_out : Contains(orca_out[i], look_for_loewdin)

\* C1: if no input line contains the section header, the run ends with the
\* message of line 346 before the cache file is read or written and before the
\* report file or a plot is written, also when a cache file exists and -ncsv
\* is not given.
C1_NoHeaderIsFatal ==
    (~HasHeader /\ pc # "search") =>
        /\ pc = "done"
        /\ outcome = "exit_not_found"
        /\ "not found" \in msgs
        /\ ~csv_written
        /\ ~oall_bound
        /\ ~report_open
        /\ report = EmptyReport
        /\ plots = {}

C1_Witness ==
    ~HasHeader /\ pc = "done" /\ outcome = "exit_not_found" /\ csv.exists /\ ~args.newcsv

\* C2: the scan reads only lines that come after the last line containing the
\* header, beginning with the line right after it, so that no line before the
\* last header, and no block between two headers, contributes to the table.
C2_ScanStartsAfterLastHeader ==
    /\ \A i \in scanned : \A j \in 0 .. Len(orca_out) - 1 :
          Contains(orca_out[j + 1], look_for_loewdin) => j < i
    /\ scanned # {} => Contains(orca_out[SetMin(scanned)], look_for_loewdin)
    /\ pc = "scan" => \A j \in 0 .. Len(orca_out) - 1 :
          Contains(orca_out[j + 1], look_for_loewdin) => j < pos

\* A run that has built its table from a file with a block between two headers.
C2_Witness ==
    /\ pc = "done"
    /\ outcome = "ok"
    /\ old_csv = 0
    /\ \E i, j, k \in DOMAIN orca_out :
          /\ i < j /\ j < k
          /\ Contains(orca_out[i], look_for_loewdin)
          /\ orca_out[j].marks = {} /\ ~IsEmptyLine(orca_out[j])
          /\ Contains(orca_out[k], look_for_loewdin)

\* The five forms of an orbital selection, as the grammar states them.
IsTwoIntegers(o) ==
    \E i \in DOMAIN o :
        /\ o[i] \in {"-", ":"}
        /\ IsDigit(SubSeq(o, 1, i - 1))
        /\ IsDigit(SubSeq(o, i + 1, Len(o)))

IsHomoWindowForm(o) == Len(o) >= 2 /\ o[1] = "h" /\ IsDigit(Tail(o))

IsOrbitalForm(o) ==
    \/ o = StrAll
    \/ o \in HomoSpellings
    \/ IsDigit(o)
    \/ IsTwoIntegers(o)
    \/ IsHomoWindowForm(o)

\* C3: an orbital selection that is none of the five forms ends the run with
\* the malformed-input error, and in no other way.
C3_OtherFormsAreMalformed ==
    (OrbitalsDone /\ ~IsOrbitalForm(args.orbitals)) => outcome = "exit_malformed"

\* C4 as stated: every letter-case variant of 'h' and 'homo' resolves to
\* [homo, homo].
C4_HomoAnyCase ==
    (OrbitalsDone /\ args.orbitals \in HomoSpellings) =>
        /\ outcome \notin {"exit_malformed", "IndexError", "exit_start_gt_last"}
        /\ orb_start = homo_num
        /\ orb_end = homo_num

\* C4, amended: exactly the spellings 'h', 'homo' and 'HOMO' resolve to
\* [homo, homo]; every other letter-case variant of 'h' and 'homo' ends the
\* run with the malformed-input error.
C4_HomoThreeSpellings ==
    (OrbitalsDone /\ args.orbitals \in HomoSpellings) =>
        IF args.orbitals \in {<<"h">>, <<"h", "o", "m", "o">>, <<"H", "O", "M", "O">>}
        THEN /\ outcome \notin {"exit_malformed", "IndexError", "exit_start_gt_last"}
             /\ orb_start = homo_num
             /\ orb_end = homo_num
        ELSE outcome = "exit_malformed"

C4_Witness ==
    /\ pc = "done"
    /\ outcome = "ok"
    /\ args.orbitals = <<"H", "O", "M", "O">>
    /\ orb_start = homo_num
    /\ orb_end = homo_num

FatalSelectionErrors == {"exit_start_gt_last", "exit_malformed", "exit_range"}

\* C5: a fatal selection error (start > end, a malformed expression, a range
\* outside 0...max_orbital(ALPHA)) ends the run before the report file is
\* opened and before a plot is written; the report and the plots are written
\* only for a range with 0 <= start <= end <= max_orbital(ALPHA).
C5_SelectionErrorsWriteNoOutput ==
    /\ outcome \in FatalSelectionErrors =>
          pc = "done" /\ ~report_open /\ report = EmptyReport /\ plots = {}
    /\ (report_open \/ plots # {}) =>
          /\ outcome \notin FatalSelectionErrors
          /\ 0 <= orb_start
          /\ orb_start <= orb_end
          /\ orb_end <= tot_num_of_orb_a

\* A run that wrote the cache file and then ended on the bounds check.
C5_Witness ==
    pc = "done" /\ outcome = "exit_range" /\ csv_written /\ orb_end > tot_num_of_orb_a

\* k of the expression h<k>
WindowOf(o) == IntOfStr(Tail(o))

\* C6: 'h<k>' resolves to [homo-k, homo+k], 2k+1 orbital numbers, and the run
\* goes on if homo-k >= 0 and homo+k <= max_orbital(ALPHA); otherwise the
\* bounds check ends the run.
C6_HomoWindow ==
    IsHomoWindowForm(args.orbitals) =>
        /\ OrbitalsDone =>
              /\ outcome \notin {"exit_malformed", "IndexError", "exit_start_gt_last"}
              /\ orb_start = homo_num - WindowOf(args.orbitals)
              /\ orb_end = homo_num + WindowOf(args.orbitals)
              /\ orb_end - orb_start + 1 = 2 * WindowOf(args.orbitals) + 1
        /\ RangeDone =>
              IF /\ homo_num - WindowOf(args.orbitals) >= 0
                 /\ homo_num + WindowOf(args.orbitals) <= tot_num_of_orb_a
              THEN outcome # "exit_range"
              ELSE outcome = "exit_range" /\ pc = "done"

C6_Witness ==
    /\ IsHomoWindowForm(args.orbitals)
    /\ WindowOf(args.orbitals) >= 1
    /\ pc = "done"
    /\ outcome = "ok"
    /\ orb_end - orb_start = 2 * WindowOf(args.orbitals)

\* The largest orbital number among the records with occupation > 0.
HighestOccupied(table) ==
    SetMax({table[i].orb_num : i \in {j \in DOMAIN table : table[j].orb_occ > 0}})

\* C7: the HOMO number computed for the table is the largest orbital number
\* among the records whose occupation is greater than 0.
C7_HomoIsHighestOccupied ==
    TotalsDone => homo_num = HighestOccupied(oall)

ConstraintWarnings ==
    {"None of the specified elements have been found.",
     "None of the specified atoms have been found.",
     "None of the specified elements or atoms have been found."}

\* A constraint expression that names no element, or no atom, of the table.
NamesNothing(c, table) ==
    /\ c # StrNone
    /\ IF elm_match(c) THEN ElementsNamed(c, table) = {} ELSE AtomsNamed(c, table) = {}

\* A grouped table of the run with constraint 'none': every element and
\* every atom of the table is selected.
UnconstrainedView(sp, cols) ==
    GroupBySum(RenamedTable(oall),
               InRangeConstrained(RenamedTable(oall), sp, orb_start, orb_end,
                                  ConstraintSelection(StrNone, oall).elements,
                                  ConstraintSelection(StrNone, oall).atoms),
               cols)

UnconstrainedReport ==
    [el_a |-> UnconstrainedView(0, ByElementCols),
     el_b |-> IfBeta(UnconstrainedView(1, ByElementCols)),
     at_a |-> AtLeast(UnconstrainedView(0, ByAtomCols), args.threshold),
     at_b |-> IfBeta(AtLeast(UnconstrainedView(1, ByAtomCols), args.threshold)),
     orb_a |-> AtLeast(UnconstrainedView(0, ByOrbCols), args.threshold),
     orb_b |-> IfBeta(AtLeast(UnconstrainedView(1, ByOrbCols), args.threshold)),
     orbor_a |-> AtLeast(UnconstrainedView(0, ByOrbOrCols), args.threshold),
     orbor_b |-> IfBeta(AtLeast(UnconstrainedView(1, ByOrbOrCols), args.threshold)),
     ao_a |-> AtLeast(ao_in_orb(UnconstrainedView(0, ByOrbOrCols)), args.threshold),
     ao_b |-> IfBeta(AtLeast(ao_in_orb(UnconstrainedView(1, ByOrbOrCols)), args.threshold))]

\* C8: a constraint expression that matches no element (or no atom) of the
\* table gives a warning and selects all elements and all atoms, and the
\* tables written are those of the run with constraint 'none' on the same
\* table, orbital range and threshold.
C8_NoMatchFallsBack ==
    (ConstraintsDone /\ NamesNothing(args.constraints, oall)) =>
        /\ msgs \cap ConstraintWarnings # {}
        /\ list_of_elements = Unique(oall, "element")
        /\ list_of_atoms = Unique(oall, "atom_no")
        /\ appl_constr = "none"
        /\ ReportDone => report = UnconstrainedReport

\* A finished run with constraint 'Ce' on a table without cerium.
C8_Witness ==
    /\ pc = "done"
    /\ outcome = "ok"
    /\ args.constraints = <<"C", "e">>
    /\ args.threshold > 0
    /\ report.at_a # {}
    /\ msgs \cap ConstraintWarnings # {}

\* C9: after constraint resolution at most one restriction is active.  An
\* expression that begins with an element symbol restricts the elements to
\* those it names that are in the table and selects every atom; one that
\* begins with a digit restricts the atoms and selects every element; tokens
\* of the other kind and tokens absent from the table are dropped, without
\* a warning as long as one token matches.
C9_OneKindOfConstraint ==
    ConstraintsDone =>
        /\ list_of_elements = Unique(oall, "element") \/ list_of_atoms = Unique(oall, "atom_no")
        /\ (args.constraints # <<>> /\ args.constraints[1] \in UpperCh) =>
              /\ list_of_atoms = Unique(oall, "atom_no")
              /\ ElementsNamed(args.constraints, oall) # {} =>
                    /\ list_of_elements = ElementsNamed(args.constraints, oall)
                    /\ msgs \cap ConstraintWarnings = {}
        /\ (args.constraints # <<>> /\ args.constraints[1] \in DigitCh) =>
              /\ list_of_elements = Unique(oall, "element")
              /\ AtomsNamed(args.constraints, oall) # {} =>
                    /\ list_of_atoms = AtomsNamed(args.constraints, oall)
                    /\ msgs \cap ConstraintWarnings = {}

\* A finished run with constraint 'C,1': carbon only, the digit is ignored.
C9_Witness ==
    /\ pc = "done"
    /\ outcome = "ok"
    /\ args.constraints = <<"C", ",", "1">>
    /\ list_of_elements = {"C"}
    /\ list_of_atoms = Unique(oall, "atom_no")
    /\ msgs \cap ConstraintWarnings = {}

RECURSIVE SumComp(_, _)
SumComp(table, idx) ==
    IF idx = {} THEN 0
    ELSE LET i == CHOOSE j \in idx : TRUE
         IN  table[i].orb_comp + SumComp(table, idx \ {i})

\* The element table as a function of the table, the spin channel and the
\* orbital range alone: the sum over the records of every (orbital, energy,
\* occupation, element) of the channel inside the range.
ElementTable(table, sp, start, end) ==
    { [OrbNo |-> table[k].orb_num, OrbitalEnergy |-> table[k].orb_en,
       Occupation |-> table[k].orb_occ, Element |-> table[k].element,
       Cntrb |-> SumComp(table, {i \in DOMAIN table :
                                    /\ table[i].orb_spin = sp
                                    /\ table[i].orb_num = table[k].orb_num
                                    /\ table[i].orb_en = table[k].orb_en
                                    /\ table[i].orb_occ = table[k].orb_occ
                                    /\ table[i].element = table[k].element})] :
        k \in {j \in DOMAIN table : /\ table[j].orb_spin = sp
                                    /\ start <= table[j].orb_num
                                    /\ table[j].orb_num <= end} }

\* C10: the by-element tables depend on the table, the spin channel and the
\* resolved orbital range only: runs that differ in the threshold or in the
\* constraint expression write the same by-element tables.
C10_ElementTableIgnoresFilters ==
    ReportDone =>
        /\ report.el_a = ElementTable(oall, 0, orb_start, orb_end)
        /\ report.el_b = IfBeta(ElementTable(oall, 1, orb_start, orb_end))

\* A report written with a threshold and an element constraint that would
\* both remove rows of the by-element table.
C10_Witness ==
    /\ pc = "done"
    /\ outcome = "ok"
    /\ args.threshold > 0
    /\ appl_constr = "Elements"
    /\ \E row \in report.el_a : row.Cntrb < args.threshold
    /\ \E row \in report.el_a : row.Element \notin list_of_elements

\* The sum of the Cntrb column of a set of rows of a view.
RECURSIVE SumRows(_)
SumRows(view) ==
    IF view = {} THEN 0
    ELSE LET row == CHOOSE r \in view : TRUE
         IN  row.Cntrb + SumRows(view \ {row})

\* The by-element table written for a spin channel.
ElementView(sp) == IF sp = 0 THEN report.el_a ELSE report.el_b

\* The by-atom table written for a spin channel.
AtomView(sp) == IF sp = 0 THEN report.at_a ELSE report.at_b

SpinChannels == IF spin = 1 THEN {0, 1} ELSE {0}

\* C11: for every spin channel and every orbital number inside the resolved
\* range, the contributions of all records of that orbital add up to the sum
\* of the rows of that orbital in the by-element table, and every element row
\* is the sum over the records of the atoms of that element; without
\* constraints and threshold it is the sum of the by-atom rows of that element.
C11_Conservation ==
    ReportDone =>
        \A sp \in SpinChannels :
            /\ \A n \in orb_start .. orb_end :
                  SumComp(oall, {i \in DOMAIN oall : oall[i].orb_spin = sp /\ oall[i].orb_num = n})
                      = SumRows({row \in ElementView(sp) : row.OrbNo = n})
            /\ \A row \in ElementView(sp) :
                  /\ row.Cntrb =
                        SumComp(oall, {i \in DOMAIN oall : /\ oall[i].orb_spin = sp
                                                           /\ oall[i].orb_num = row.OrbNo
                                                           /\ oall[i].element = row.Element})
                  /\ (appl_constr = "none" /\ args.threshold = 0) =>
                        row.Cntrb = SumRows({r \in AtomView(sp) : /\ r.OrbNo = row.OrbNo
                                                                  /\ r.Element = row.Element})

\* A report with an element row that adds up non-zero contributions of two
\* atoms of the element.
C11_Witness ==
    /\ pc = "done"
    /\ outcome = "ok"
    /\ appl_constr = "none"
    /\ args.threshold = 0
    /\ \E row \in report.el_a : \E r1, r2 \in report.at_a :
          /\ r1.OrbNo = row.OrbNo /\ r2.OrbNo = row.OrbNo
          /\ r1.Element = row.Element /\ r2.Element = row.Element
          /\ r1.AtomNo # r2.AtomNo
          /\ r1.Cntrb > 0 /\ r2.Cntrb > 0

\* The grouped tables the threshold is applied to, with the tables written.
ThresholdedViews ==
    {[grouped |-> sum_by_at_a, written |-> report.at_a],
     [grouped |-> sum_by_orb_a, written |-> report.orb_a],
     [grouped |-> sum_by_orb_or_a, written |-> report.orbor_a]}
    \cup IfBeta({[grouped |-> sum_by_at_b, written |-> report.at_b],
                 [grouped |-> sum_by_orb_b, written |-> report.orb_b],
                 [grouped |-> sum_by_orb_or_b, written |-> report.orbor_b]})

\* Thresholds below and at the values of the command lines.
LowerThresholds == {t \in {0, 25, 30, 50} : t <= args.threshold}

\* C12: in the by-atom, by-AO-family and by-specific-AO tables a grouped row
\* is written if and only if its summed contribution is >= threshold, a sum
\* equal to the threshold included; hence the rows written are among the rows
\* a run with any smaller threshold writes.
C12_ThresholdInclusive ==
    ReportDone =>
        \A v \in ThresholdedViews :
            /\ v.written \subseteq v.grouped
            /\ \A row \in v.grouped : row \in v.written <=> row.Cntrb >= args.threshold
            /\ \A t \in LowerThresholds :
                  v.written \subseteq {row \in v.grouped : row.Cntrb >= t}

\* A report at threshold 50 with an atom row of exactly 50 written and an atom
\* row of 30 left out.
C12_Witness ==
    /\ pc = "done"
    /\ outcome = "ok"
    /\ args.threshold = 50
    /\ \E row \in report.at_a : row.Cntrb = 50
    /\ \E row \in sum_by_at_a : row.Cntrb = 30 /\ row \notin report.at_a
    /\ \E row \in report.at_a : row.Element = "C" /\ row.Cntrb = 70

\* All tables written to the report.
WrittenViews ==
    {report.el_a, report.el_b, report.at_a, report.at_b, report.orb_a, report.orb_b,
     report.orbor_a, report.orbor_b, report.ao_a, report.ao_b}

\* C13: every orbital number in a table of the report (by element, by atom,
\* by AO family, by specific AO, AOs in orbitals; alpha and beta) lies within
\* the resolved range.
C13_ViewsWithinRange ==
    ReportDone =>
        \A view \in WrittenViews : \A row \in view :
            orb_start <= row.OrbNo /\ row.OrbNo <= orb_end

\* A report on a range that leaves out orbitals of the table below and above.
C13_Witness ==
    /\ pc = "done"
    /\ outcome = "ok"
    /\ report.el_a # {}
    /\ report.ao_a # {}
    /\ \E i \in DOMAIN oall : oall[i].orb_num < orb_start
    /\ \E i \in DOMAIN oall : oall[i].orb_num > orb_end

\* C14 as stated: a run in which no by-atom row is left at the threshold
\* ends with a fatal error.
C14_EmptyAtomTableIsFatal ==
    (pc = "done" /\ ReportDone /\ report.at_a = {}) => outcome # "ok"

\* C14: if no by-atom row of a spin channel is left at the threshold, the atom
\* heat map of that channel is not drawn and nothing else changes: the report
\* and the element plots are written and the run ends normally.
C14_EmptyAtomTableSkipsHeatMap ==
    (pc = "done" /\ ReportDone /\ report.el_a # {} /\ (spin = 1 => report.el_b # {})) =>
        /\ outcome = "ok"
        /\ "el-cntrb-a.png" \in plots
        /\ "a-cntrb-a.png" \in plots <=> report.at_a # {}
        /\ "a-cntrb-b.png" \in plots <=> report.at_b # {}

\* A finished run at threshold 50 whose by-atom table (alpha) is empty.
C14_Witness ==
    /\ pc = "done"
    /\ outcome = "ok"
    /\ report_open
    /\ args.threshold = 50
    /\ report.el_a # {}
    /\ report.at_a = {}
    /\ "a-cntrb-a.png" \notin plots

\* The run has passed the cache check, the cache write.
CacheCheckDone == pc \notin {"search", "csv_check"} /\ outcome # "exit_not_found"

CacheWriteDone == pc = "totals" \/ TotalsDone \/ (pc = "done" /\ outcome = "KeyError")

\* The cache file was there when the run started: the message of line 359.
CacheFound == "Found csv in folder." \in msgs

\* The table as read_csv returns it: with the index column of the file.
TableWithIndex(table) == ReadCsv(ToCsv(table))

\* C15: the table is restored from the cache file, the scan loop does not run
\* and the cache file is not written, exactly when the cache file exists and
\* -ncsv is not given; in every other case the table is built by the scan
\* loop and then written to the cache file, replacing the file if it exists.
C15_CacheUsedOrRebuilt ==
    CacheCheckDone =>
        /\ (old_csv = 1) <=> (CacheFound /\ ~args.newcsv)
        /\ old_csv = 1 =>
              /\ scanned = {}
              /\ ~first_time
              /\ ~csv_written
              /\ csv.exists
              /\ oall = ReadCsv(csv)
        /\ (old_csv = 0 /\ CacheWriteDone) =>
              /\ scanned # {}
              /\ first_time
              /\ csv_written
              /\ csv = ToCsv(oall)

\* A finished run that has restored its table from the cache file of another
\* table and has left the file as it was.
C15_Witness ==
    /\ pc = "done"
    /\ outcome = "ok"
    /\ old_csv = 1
    /\ orca_out = FileAB
    /\ oall = TableWithIndex(TableUHF2)
    /\ csv = ToCsv(TableUHF2)
    /\ ~csv_written

\* The nine fields of a Contribution Record.
RecordFields ==
    {"orb_num", "orb_spin", "orb_en", "orb_occ", "atom_no", "element", "orbital",
     "orb_red", "orb_comp"}

NineFields(r) == [f \in RecordFields |-> r[f]]

\* C16: the table restored from the cache file a run has written holds the
\* same records, field for field, as the table that run has parsed.
C16_RoundTrip ==
    (csv_written /\ CacheWriteDone) =>
        /\ Len(ReadCsv(csv)) = Len(oall)
        /\ \A i \in DOMAIN oall : NineFields(ReadCsv(csv)[i]) = NineFields(oall[i])

\* The focus-atom section has run.
FocusDone == pc = "range" \/ RangeDone

\* The atoms of the table the -a expression names.
Requested == AtomsNamed(args.aorbitals, oall)

\* The atoms of the elements selected by the constraints.
ElementAtoms == {oall[i].atom_no : i \in {j \in DOMAIN oall : oall[j].element \in list_of_elements}}

HeatMapsDisabledWithWarning == ~constr_for_atoms_set /\ NoHeatMapWarning \in msgs

\* C17 as stated: the focus atoms are the union of the requested atoms inside
\* the atom constraint and the requested atoms inside the element constraint,
\* and AO heat maps are disabled, with a warning, exactly when it is empty.
C17_FocusAtomsAreUnion ==
    (FocusDone /\ atm_match(args.aorbitals)) =>
        LET union == (Requested \cap list_of_atoms) \cup (Requested \cap ElementAtoms)
        IN  /\ list_of_atoms_ao = union
            /\ HeatMapsDisabledWithWarning <=> union = {}

\* C17: for a -a expression that begins with a digit, AO heat maps are enabled
\* exactly when some requested atom of the table lies inside the atom
\* constraint and inside the atoms of the element constraint; the focus atoms
\* then are that intersection.  Otherwise heat maps are disabled with a
\* warning.  Any other -a expression disables them without a warning.
C17_FocusAtomsAreIntersection ==
    FocusDone =>
        LET common == Requested \cap list_of_atoms \cap ElementAtoms
        IN  IF args.aorbitals # <<>> /\ args.aorbitals[1] \in DigitCh
            THEN /\ constr_for_atoms_set <=> common # {}
                 /\ constr_for_atoms_set => list_of_atoms_ao = common
                 /\ ~constr_for_atoms_set <=> NoHeatMapWarning \in msgs
            ELSE /\ ~constr_for_atoms_set
                 /\ NoHeatMapWarning \notin msgs

\* A finished run with -c C -a 0,1: atom 1 is nitrogen and is dropped.
C17_Witness ==
    /\ pc = "done"
    /\ outcome = "ok"
    /\ args.constraints = <<"C">>
    /\ Requested = {0, 1}
    /\ constr_for_atoms_set
    /\ list_of_atoms_ao = {0}

\* sel_atom_ao, the focus atoms the report names: the list if heat maps are
\* enabled, 'none' otherwise.
sel_atom_ao == IF constr_for_atoms_set THEN list_of_atoms_ao ELSE {}

\* The requested atoms that the active constraint leaves out.
Excluded == {n \in Requested : n \notin list_of_atoms \/ n \notin ElementAtoms}

\* The file names of the AO heat maps of an atom.
AoPlotNames(n) ==
    {"ao-cntrb-" \o oall[i].element \o IntText(n) \o suffix :
        i \in {j \in DOMAIN oall : oall[j].atom_no = n}, suffix \in {"-a.png", "-b.png"}}

\* C18: for a -a expression that begins with a digit, a requested focus atom
\* that the active element or atom constraint leaves out is not among the
\* focus atoms and gets no AO heat map; if every requested atom is left out,
\* AO heat maps are disabled with a warning.
C18_ConstraintsLimitFocusAtoms ==
    (FocusDone /\ args.aorbitals # <<>> /\ args.aorbitals[1] \in DigitCh) =>
        /\ \A n \in Excluded : n \notin sel_atom_ao /\ plots \cap AoPlotNames(n) = {}
        /\ (Requested # {} /\ Excluded = Requested) => HeatMapsDisabledWithWarning

\* A finished run with an active constraint that has drawn the heat map of one
\* requested atom and left out the other.
C18_Witness ==
    /\ pc = "done"
    /\ outcome = "ok"
    /\ appl_constr # "none"
    /\ \E n \in Excluded : TRUE
    /\ \E n \in Requested \ Excluded : plots \cap AoPlotNames(n) # {}

\* A table holds, for every packed column i and data row j of the raw block,
\* exactly one record made of position i of the three header rows, the first
\* three words and the i-th contribution of row j, and the spin sp; and no
\* other record.
Expanded(raw, sp, table) ==
    LET k == Len(raw[1])
        N == Len(raw) - 3
    IN  /\ Len(table) = k * N
        /\ \A i \in 1 .. k : \A j \in 1 .. N :
              Cardinality({n \in DOMAIN table :
                              /\ table[n].orb_num = raw[1][i]
                              /\ table[n].orb_en = raw[2][i]
                              /\ table[n].orb_occ = raw[3][i]
                              /\ table[n].atom_no = raw[3 + j][1]
                              /\ table[n].element = raw[3 + j][2]
                              /\ table[n].orbital = raw[3 + j][3]
                              /\ table[n].orb_comp = raw[3 + j][3 + i]
                              /\ table[n].orb_spin = sp}) = 1

\* C19: the blank line that ends a block of three header rows, N data rows and
\* k packed orbitals turns it into k * N records, one for every packed column
\* and data row, stamped with the spin that is current at that line.
C19_BlockExpansion ==
    [][(pc = "scan" /\ emptyline_count' = emptyline_count + 1 /\ raworbitals # <<>>)
          => Expanded(raworbitals, spin, os')]_vars

\* The scan has just expanded a block of two orbitals and four rows that
\* follows a SPIN DOWN line into eight records of spin 1.
C19_Witness ==
    /\ pc = "scan"
    /\ os_bound
    /\ raworbitals = <<>>
    /\ emptyline_count = 1
    /\ Len(os) = 8
    /\ \A n \in DOMAIN os : os[n].orb_spin = 1
    /\ oall_bound /\ Len(oall) >= 8

\* The last line with the header (from 1), and the lines after it that are
\* blank and followed by a blank line.
LastHeaderLine == SetMax({i \in DOMAIN orca_out : Contains(orca_out[i], look_for_loewdin)})

BlankPairs ==
    {p \in DOMAIN orca_out : /\ p > LastHeaderLine
                             /\ p + 1 \in DOMAIN orca_out
                             /\ IsEmptyLine(orca_out[p])
                             /\ IsEmptyLine(orca_out[p + 1])}

\* C20: the scan never reads a line after the second of two consecutive blank
\* lines of the section, and the spin is 1 only if a SPIN DOWN line lies
\* between the header and there, whatever follows.
C20_StopsAtSecondBlankLine ==
    HasHeader =>
        \A p \in BlankPairs :
            /\ \A i \in scanned : i + 1 <= p + 1
            /\ (old_csv = 0 /\ spin = 1) =>
                  \E i \in LastHeaderLine + 1 .. p + 1 :
                      Contains(orca_out[i], "SPIN DOWN")

\* A finished run on a file with a SPIN DOWN line after the two blank lines:
\* the table has alpha records only.
C20_Witness ==
    /\ pc = "done"
    /\ outcome = "ok"
    /\ HasHeader
    /\ \E p \in BlankPairs : \E i \in p + 2 .. Len(orca_out) :
          Contains(orca_out[i], "SPIN DOWN")
    /\ spin = 0
    /\ \A n \in DOMAIN oall : oall[n].orb_spin = 0

\* The lines read so far that hold the divider of the beta part.
DividersRead(read) == {i \in read : Contains(orca_out[i + 1], "SPIN DOWN")}

\* C21: spin starts as 0, is 1 exactly from the first SPIN DOWN line read on,
\* never returns to 0, and every block is stamped with it when the blank line
\* after the block is read.
C21_SpinMonotonic ==
    /\ spin = 0
    /\ [][/\ spin = 1 => spin' = 1
          /\ (pc = "scan" /\ old_csv = 0) =>
                /\ spin' = 1 <=> DividersRead(scanned') # {}
                /\ (emptyline_count' = emptyline_count + 1 /\ raworbitals # <<>>) =>
                      \A n \in DOMAIN os' : os'[n].orb_spin = spin']_vars

\* A scan that has read a SPIN UP line after a SPIN DOWN line and then a block:
\* the block is in the table with spin 1.
C21_Witness ==
    /\ pc = "dtypes"
    /\ old_csv = 0
    /\ spin = 1
    /\ \E i, j \in scanned : /\ i < j
                             /\ Contains(orca_out[i + 1], "SPIN DOWN")
                             /\ orca_out[j + 1] = SpinUpLine
    /\ \E n \in DOMAIN oall : oall[n].orb_spin = 1

\* C22: a blank line read with no rows accumulated adds nothing to the table
\* and does not end the run; a blank line read with rows accumulated builds
\* the block and empties the accumulator.
C22_BlankWithEmptyAccumulator ==
    [][(pc = "scan" /\ old_csv = 0 /\ emptyline_count' = emptyline_count + 1) =>
          IF raworbitals = <<>>
          THEN oall' = oall /\ outcome' = "running"
          ELSE os' = BlockTable(raworbitals, spin) /\ raworbitals' = <<>>]_vars

\* C23: every step of the scan leaves the table as it is, except the blank
\* line read after the rows of a block, which appends the records of that
\* block once at the end of the table.
C23_BlocksAppendedOnce ==
    [][(pc = "scan" /\ old_csv = 0) =>
          IF emptyline_count' = emptyline_count + 1 /\ raworbitals # <<>>
          THEN oall' = oall \o BlockTable(raworbitals, spin)
          ELSE oall' = oall]_vars

\* The scan has ended at a second blank line, read with no rows accumulated,
\* after two blocks: the table holds the first block, then the second, once.
C23_Witness ==
    /\ pc = "dtypes"
    /\ emptyline_count = 2
    /\ os # <<>>
    /\ Len(oall) = 2 * Len(os)
    /\ SubSeq(oall, Len(os) + 1, Len(oall)) = os
    /\ oall[1].orb_num # os[1].orb_num

\* C24: the table grows only at a blank line read by the scan; when the file
\* ends with rows still accumulated the scan ends and these rows are not in
\* the table, and no later step adds a record.
C24_LastBlockNeedsBlankLine ==
    [][old_csv' = 0 =>
          /\ oall' # oall /\ pc = "scan" =>
                pos < Len(orca_out) /\ IsEmptyLine(orca_out[pos + 1])
          /\ (pc = "scan" /\ pos >= Len(orca_out) /\ raworbitals # <<>>) =>
                oall' = oall /\ pc' = "dtypes"
          /\ pc # "scan" => Len(oall') = Len(oall)]_vars

\* A file that ends with the rows of its second block: the table that is
\* written to the cache holds the records of the first block only.
C24_Witness ==
    /\ pc = "csv_write"
    /\ old_csv = 0
    /\ pos = Len(orca_out)
    /\ raworbitals = RawRows(BlockA)
    /\ os # <<>>
    /\ Len(oall) = Len(os)

\* C25: when the totals are taken, spin is 1 exactly if the table has a record
\* of spin 1, the row of the beta maximum exists if spin is 1, and a run on
\* the cache written by this run finds the same spin.
C25_BetaFlagMatchesTable ==
    pc = "totals" =>
        /\ spin = 1 <=> HasBetaRecords(oall)
        /\ spin = 1 => HasGroupRow(oall, "orb_spin", 1)
        /\ csv_written => (spin = 1 <=> HasBetaRecords(ReadCsv(csv)))

====
